---- MODULE Spec2Model ----
(***************************************************************************)
(* Inventory ledger and order-fulfilment core of MTIMS                     *)
(* (server/src/routes/orders.js, routes/stock.js, routes/purchaseOrders.js,*)
(* routes/products.js and the mongoose models).                            *)
(*                                                                         *)
(* Every request handler is a process that walks through its awaits; one   *)
(* action is one await (or a run of awaits no other request can observe).  *)
(* The store is MongoDB as the handlers use it:                            *)
(*  - an operation given {session} runs in a multi-document transaction:   *)
(*    it reads the snapshot taken by the transaction's first operation     *)
(*    plus the transaction's own writes, its writes stay private until     *)
(*    commitTransaction, and a write to a document that another open       *)
(*    transaction has written, or that was changed after the snapshot,     *)
(*    throws WriteConflict (the handlers never retry);                     *)
(*  - an operation without a session is applied to the committed data at   *)
(*    once, and waits while an open transaction holds the document.        *)
(***************************************************************************)
EXTENDS Integers, Sequences, FiniteSets, TLC

(* ------------------------------ bounds --------------------------------- *)
\* total number of requests served in one behaviour
MaxRequests == 3
\* the stock unit v1 is seeded with
SeedStock == 2
\* the lowStockThreshold the units are seeded with
SeedThreshold == 1
\* the price the units are seeded with
SeedPrice == 3

\* concurrent request handlers
Procs == {"p1", "p2"}
\* stock units; v3 belongs to another tenant
Variants == {"v1", "v2", "v3"}
TenantOf(v) == IF v = "v3" THEN "t2" ELSE "t1"
\* the tenant every modelled request is authenticated for (req.tenantId)
ReqTenant == "t1"

(* --------------------------- JS arithmetic ----------------------------- *)
\* A request body number may arrive as a JSON number or as a numeric JSON
\* string: isInt() accepts both and nothing converts the value.
Line(v, q, s) == [variantId |-> v, quantity |-> q, asString |-> s]

RECURSIVE NumDigits(_)
NumDigits(n) == IF n < 10 THEN 1 ELSE 1 + NumDigits(n \div 10)

RECURSIVE Pow10(_)
Pow10(k) == IF k = 0 THEN 1 ELSE 10 * Pow10(k - 1)

\* Number(String(a) + String(b)) for non-negative a, b
Concat(a, b) == a * Pow10(NumDigits(b)) + b

\* JS `a + x` where a is a number and x a request value: string
\* concatenation when x is a string (mongoose casts the result to Number)
JsPlus(a, line) == IF line.asString THEN Concat(a, line.quantity) ELSE a + line.quantity

(* ------------------------------- state --------------------------------- *)
VARIABLES
  variants,        \* committed Variant documents, per unit: exists, stock,
                   \* lowStockThreshold, price
  orders,          \* committed Order documents; an order's _id is its index
  purchaseOrders,  \* committed PurchaseOrder documents; _id is the index
  movements,       \* committed StockMovement documents, in insertion order
  proc,            \* per request handler: position, request, locals, session
  nreq,            \* requests started so far
  last,            \* the step just taken: handler, operation, response
  sockets          \* per client connection: the socket's tenant, its rooms
                   \* and the events delivered to it

vars == <<variants, orders, purchaseOrders, movements, proc, nreq, last, sockets>>

\* no document
NoVariant == [exists |-> FALSE, stock |-> 0, lowStockThreshold |-> 0, price |-> 0]
NoView == [v \in Variants |-> NoVariant]
NoOrder ==
  [tenantId |-> "", status |-> "none", items |-> <<>>, totalAmount |-> 0,
   cancelledAt |-> FALSE]
NoPO == [tenantId |-> "", status |-> "none", items |-> <<>>]

\* a handler between requests
IdleProc ==
  [pc |-> "idle", items |-> <<>>, target |-> 0, arg |-> "", notesTooLong |-> FALSE,
   i |-> 1, orderItems |-> <<>>, stockMovements |-> <<>>,
   order |-> NoOrder, po |-> NoPO, variant |-> NoVariant, emitted |-> <<>>,
   inTxn |-> FALSE, view |-> NoView, wr |-> {},
   dirtyV |-> {}, dirtyO |-> {}, dirtyP |-> {}]

\* the record of a step: the order or purchase order it is about (0: none),
\* the line of the request it handled (0: none), the response sent ("pending"
\* while the handler goes on), the unit and the signed quantity of the stock
\* update the step asked for ("" and 0: none), and the events the request
\* has emitted up to and with this step
DidOn(p, op, ref, line, result, unit, delta, events) ==
  [p |-> p, op |-> op, ref |-> ref, line |-> line, result |-> result,
   unit |-> unit, delta |-> delta, events |-> events, available |-> 0]

\* a step that asks for no stock update and has emitted nothing
Did(p, op, ref, line, result) == DidOn(p, op, ref, line, result, "", 0, <<>>)

(* ------------------------------- events -------------------------------- *)
\* io.to(`tenant:${req.tenantId}`).emit(type, payload): the unit and the
\* stock of the payload ("" and 0 for an event about an order or a purchase
\* order)
Event(type, v, stock) == [type |-> type, variantId |-> v, stock |-> stock]

\* stock:updated for unit v as document doc shows it, and stock:low when
\* doc.stock <= doc.lowStockThreshold
StockEvents(v, doc) ==
  <<Event("stock:updated", v, doc.stock)>> \o
  (IF doc.stock <= doc.lowStockThreshold
   THEN <<Event("stock:low", v, doc.stock)>> ELSE <<>>)

(* ------------------------------ sockets -------------------------------- *)
\* client connections
Conns == {"c1", "c2"}

\* no socket: the connection is closed or was refused
NoSocket == [connected |-> FALSE, tenantId |-> "", rooms |-> {}, received |-> {}]
NoSockets == [c \in Conns |-> NoSocket]

\* the room `tenant:${tenantId}`
TenantRoom(tenantId) == "tenant:" \o tenantId

\* an emit to every connected socket
EmitToAll(socks, tenantId, events) ==
  [c \in Conns |->
     IF socks[c].connected
     THEN [socks[c] EXCEPT !.received =
             @ \cup {[tenantId |-> tenantId, type |-> events[i].type] :
                       i \in 1..Len(events)}]
     ELSE socks[c]]

\* io.to(`tenant:${req.tenantId}`).emit(type, payload) for each of `events`:
\* delivery to the sockets that are in the room
Emit(socks, tenantId, events) ==
  [c \in Conns |->
     IF TenantRoom(tenantId) \in socks[c].rooms
     THEN [socks[c] EXCEPT !.received =
             @ \cup {[tenantId |-> tenantId, type |-> events[i].type] :
                       i \in 1..Len(events)}]
     ELSE socks[c]]

(* ------------------------- storage primitives -------------------------- *)
\* a query without the tenantId filter
MatchesAnyTenant(docs, v, tenantId, minStock) ==
  docs[v].exists /\ docs[v].stock >= minStock

\* the query {_id: v, tenantId, stock: {$gte: minStock}} against `docs`
Matches(docs, v, tenantId, minStock) ==
  docs[v].exists /\ TenantOf(v) = tenantId /\ docs[v].stock >= minStock

\* the update {$inc: {stock: inc}} applied to unit v of `docs`
Inc(docs, v, inc) == [docs EXCEPT ![v].stock = @ + inc]

\* what an operation of p's session reads: the snapshot its first operation
\* took, with the session's own writes
TxnView(p) == IF proc[p].inTxn THEN proc[p].view ELSE variants

\* unit v is held by an open transaction other than p's
LockedByOther(p, v) == \E q \in Procs \ {p} : v \in proc[q].wr

\* a write of p's session to unit v conflicts
WriteConflict(p, v) == v \in proc[p].dirtyV \/ LockedByOther(p, v)

\* the other sessions after committed writes to units vs, orders os and
\* purchase orders ps by p: their snapshots are now stale for these
Stale(p, vs, os, ps) ==
  [q \in Procs |->
     IF q # p /\ proc[q].inTxn
     THEN [proc[q] EXCEPT !.dirtyV = @ \cup vs, !.dirtyO = @ \cup os,
                          !.dirtyP = @ \cup ps]
     ELSE proc[q]]

\* a commit that publishes no unit
CommitVariantsNone(p) == variants

\* the committed units after p's transaction commits
CommitVariants(p) ==
  [v \in Variants |-> IF v \in proc[p].wr THEN proc[p].view[v] ELSE variants[v]]

\* a create that puts its documents in the place of the collection
RecordedInPlace(ms) == ms

\* the StockMovement collection after StockMovement.create(ms)
Recorded(ms) == movements \o ms

\* p's stockMovements with the reference of the document they belong to
Referenced(p, ref, id) ==
  [k \in 1..Len(proc[p].stockMovements) |->
     [proc[p].stockMovements[k] EXCEPT !.reference = ref, !.referenceId = id]]

(* --------------------- POST /api/orders (create) ----------------------- *)
OrderBodies ==
  { <<Line("v1", 1, FALSE)>>,
    <<Line("v1", 2, FALSE)>>,
    <<Line("v1", 1, TRUE)>>,
    <<Line("v1", 1, FALSE), Line("v2", 2, FALSE)>>,
    <<Line("v1", 1, FALSE), Line("v1", 1, FALSE)>>,
    <<Line("v2", 1, FALSE), Line("v3", 1, FALSE)>> }

\* order creation whose stock updates were issued outside the session
OrderNoSession == FALSE

\* the stock updates of order creation are given the request's session
OrderUpdateInSession == TRUE

\* a conditional update without the stock condition
OrderGuardNone(docs, item, tenantId) ==
  Matches(docs, item.variantId, tenantId, 0)

\* the guard of the conditional update: stock >= item.quantity
OrderGuard(docs, item, tenantId) ==
  Matches(docs, item.variantId, tenantId, item.quantity)

\* the `exists` lookup after a rejected update
VariantExists(docs, v, tenantId) == Matches(docs, v, tenantId, 0)

\* the stock of the unit read outside the session
ExistsStockCommitted(docs, v) == variants[v].stock

\* exists.stock of the lookup, which runs in the request's session: the
\* "Available" of the InsufficientStock message
ExistsStock(docs, v) == docs[v].stock

\* a line total that leaves the quantity out
LineTotalNone(price, item) == price

\* total: variant.price * item.quantity (the product of the numbers also
\* when the quantity is a numeric string)
LineTotal(price, item) == price * item.quantity

\* orderItems.reduce((sum, item) => sum + item.total, 0)
RECURSIVE TotalAmount(_)
TotalAmount(orderItems) ==
  IF orderItems = <<>> THEN 0
  ELSE TotalAmount(SubSeq(orderItems, 1, Len(orderItems) - 1))
       + orderItems[Len(orderItems)].total

\* the movement pushed for a line; `after` is variant.stock of the update's
\* result
SaleMovement(after, item) ==
  [variantId |-> item.variantId, type |-> "sale", quantity |-> 0 - item.quantity,
   previousStock |-> JsPlus(after, item), newStock |-> after,
   reference |-> "", referenceId |-> 0]

\* one turn of the loop over items, with pr the handler's locals: the
\* conditional update, and on a miss the lookup that picks the error; a throw
\* aborts the transaction
OrderTurn(p, pr) ==
  LET item == pr.items[pr.i]
      v == item.variantId
      docs == IF OrderUpdateInSession THEN TxnView(p) ELSE variants
      after == Inc(docs, v, 0 - item.quantity)
      out == IF ~OrderGuard(docs, item, ReqTenant)
             THEN IF VariantExists(docs, v, ReqTenant)
                  THEN "InsufficientStock" ELSE "NotFound"
             ELSE IF OrderUpdateInSession /\ WriteConflict(p, v)
                  THEN "WriteConflict" ELSE "pending"
      next == [pr EXCEPT
                 !.i = @ + 1,
                 !.pc = IF pr.i = Len(pr.items) THEN "order_commit" ELSE "order_loop",
                 !.orderItems = Append(@, [variantId |-> v, quantity |-> item.quantity,
                                           unitPrice |-> after[v].price,
                                           total |-> LineTotal(after[v].price, item)]),
                 !.stockMovements = Append(@, SaleMovement(after[v].stock, item))]
  IN
  /\ IF out # "pending"
     THEN /\ proc' = [proc EXCEPT ![p] = IdleProc]
          /\ UNCHANGED variants
     ELSE IF OrderUpdateInSession
     THEN /\ proc' = [proc EXCEPT ![p] =
                        [next EXCEPT !.inTxn = TRUE, !.view = after, !.wr = @ \cup {v}]]
          /\ UNCHANGED variants
     ELSE /\ ~LockedByOther(p, v)
          /\ variants' = after
          /\ proc' = [Stale(p, {v}, {}, {}) EXCEPT ![p] = next]
  /\ last' = [DidOn(p, "createOrder", 0, pr.i, out, v, 0 - item.quantity, <<>>)
                EXCEPT !.available = IF out = "InsufficientStock"
                                     THEN ExistsStock(docs, v) ELSE 0]
  /\ sockets' = Emit(sockets, ReqTenant, last'.events)
  /\ UNCHANGED <<orders, purchaseOrders, movements>>

\* the request arrives: startTransaction and the first turn of the loop
StartCreateOrder(p) ==
  /\ proc[p].pc = "idle"
  /\ nreq < MaxRequests
  /\ nreq' = nreq + 1
  /\ \E body \in OrderBodies :
       OrderTurn(p, [IdleProc EXCEPT !.pc = "order_loop", !.items = body])

\* a later turn of the loop
OrderLine(p) ==
  /\ proc[p].pc = "order_loop"
  /\ OrderTurn(p, proc[p])
  /\ UNCHANGED nreq

\* an abort that keeps the session's writes to the units
AbortVariantsKept(p) == CommitVariants(p)

\* the committed units after p's transaction is aborted: the session's
\* writes are discarded
AbortVariants(p) == variants

\* generateOrderNumber() can return the orderNumber of an order of the
\* tenant, which the unique index (tenantId, orderNumber) rejects
CanCollide == \E id \in 1..Len(orders) : orders[id].tenantId = ReqTenant

\* Order.create, StockMovement.create, commitTransaction and the emit of
\* order:created; the handler goes on to the loop that emits the stock
\* events.  When the generated orderNumber collides, Order.create throws the
\* duplicate key error and the catch block aborts the transaction
OrderCommit(p) ==
  LET pr == proc[p]
      id == Len(orders) + 1
      events == <<Event("order:created", "", 0)>>
  IN
  /\ pr.pc = "order_commit"
  /\ \E collides \in {FALSE, CanCollide} :
       IF collides
       THEN /\ variants' = AbortVariants(p)
            /\ proc' = [proc EXCEPT ![p] = IdleProc]
            /\ last' = Did(p, "createOrder", 0, 0, "DuplicateKey")
            /\ sockets' = Emit(sockets, ReqTenant, last'.events)
            /\ UNCHANGED <<orders, movements>>
       ELSE /\ orders' = Append(orders,
                           [tenantId |-> ReqTenant, status |-> "pending",
                            items |-> pr.orderItems,
                            totalAmount |-> TotalAmount(pr.orderItems),
                            cancelledAt |-> FALSE])
            /\ movements' = Recorded(Referenced(p, "Order", id))
            /\ variants' = CommitVariants(p)
            /\ proc' = [Stale(p, pr.wr, {}, {}) EXCEPT ![p] =
                          [IdleProc EXCEPT !.pc = "order_emit", !.target = id,
                                           !.orderItems = pr.orderItems,
                                           !.emitted = events]]
            /\ last' = DidOn(p, "createOrder", id, 0, "committed", "", 0, events)
            /\ sockets' = Emit(sockets, ReqTenant, last'.events)
  /\ UNCHANGED <<purchaseOrders, nreq>>

\* one turn of the loop over orderItems after the commit:
\* Variant.findById(item.variantId) without a session and the emits for what
\* it returns; on null the read of updatedVariant.stock throws, and the catch
\* block answers with an error.  The response follows the last turn
OrderEmit(p) ==
  LET pr == proc[p]
      item == pr.orderItems[pr.i]
      v == item.variantId
      updatedVariant == variants[v]
      events == IF updatedVariant.exists
                THEN pr.emitted \o StockEvents(v, updatedVariant)
                ELSE pr.emitted
      out == IF ~updatedVariant.exists THEN "TypeError"
             ELSE IF pr.i = Len(pr.orderItems) THEN "created"
             ELSE "pending"
  IN
  /\ pr.pc = "order_emit"
  /\ proc' = [proc EXCEPT ![p] =
       IF out # "pending" THEN IdleProc
       ELSE [pr EXCEPT !.i = @ + 1, !.emitted = events]]
  /\ last' = DidOn(p, "createOrder", pr.target, pr.i, out, "", 0, events)
  /\ sockets' = Emit(sockets, ReqTenant,
                      IF updatedVariant.exists
                      THEN StockEvents(v, updatedVariant) ELSE <<>>)
  /\ UNCHANGED <<variants, orders, purchaseOrders, movements, nreq>>

(* ------------------ POST /api/orders/:id/cancel ------------------------ *)
\* a cancel that refuses no status
CancelRefusedNone == {}

\* statuses from which cancel is refused with 'Cannot cancel a
\* shipped/delivered order'
CancelRefused == {"shipped", "delivered"}

\* a cancel that restores nothing
CancelIncNone(item) == 0

\* the compensating update: {$inc: {stock: item.quantity}}
CancelInc(item) == item.quantity

\* the movement pushed for a restored line
ReturnMovement(after, item) ==
  [variantId |-> item.variantId, type |-> "return", quantity |-> item.quantity,
   previousStock |-> after - item.quantity, newStock |-> after,
   reference |-> "", referenceId |-> 0]

\* the guards on the order that cancel has read
CancelGuard(order) ==
  IF order.status = "cancelled" THEN "AlreadyCancelled"
  ELSE IF order.status \in CancelRefused THEN "CannotCancel"
  ELSE "pending"

\* the request arrives: startTransaction, Order.findOne with the tenant
\* filter in the session (the transaction's snapshot) and the guards.  notesTooLong: `reason` is longer
\* than the 500 characters StockMovement.notes allows
StartCancel(p) ==
  /\ proc[p].pc = "idle"
  /\ nreq < MaxRequests
  /\ nreq' = nreq + 1
  /\ \E id \in 1..Len(orders), long \in BOOLEAN :
       LET order == orders[id]
           out == IF order.tenantId # ReqTenant THEN "NotFound"
                  ELSE CancelGuard(order)
       IN
       /\ proc' = [proc EXCEPT ![p] =
            IF out # "pending" THEN IdleProc
            ELSE [IdleProc EXCEPT !.pc = "cancel_loop", !.target = id,
                                  !.notesTooLong = long, !.order = order,
                                  !.inTxn = TRUE, !.view = variants]]
       /\ last' = Did(p, "cancel", id, 0, out)
       /\ sockets' = Emit(sockets, ReqTenant, last'.events)
  /\ UNCHANGED <<variants, orders, purchaseOrders, movements>>

\* one turn of the loop over order.items
CancelLine(p) ==
  LET pr == proc[p]
      item == pr.order.items[pr.i]
      v == item.variantId
      found == Matches(pr.view, v, ReqTenant, 0)
      after == Inc(pr.view, v, CancelInc(item))
      out == IF found /\ WriteConflict(p, v) THEN "WriteConflict" ELSE "pending"
      step == [pr EXCEPT
                 !.i = @ + 1,
                 !.pc = IF pr.i = Len(pr.order.items) THEN "cancel_commit"
                        ELSE "cancel_loop"]
  IN
  /\ pr.pc = "cancel_loop"
  /\ proc' = [proc EXCEPT ![p] =
       IF out # "pending" THEN IdleProc
       ELSE IF found
       THEN [step EXCEPT
               !.view = after, !.wr = @ \cup {v},
               !.stockMovements = Append(@, ReturnMovement(after[v].stock, item))]
       ELSE step]
  /\ last' = DidOn(p, "cancel", pr.target, pr.i, out, v, CancelInc(item), <<>>)
  /\ sockets' = Emit(sockets, ReqTenant, last'.events)
  /\ UNCHANGED <<variants, orders, purchaseOrders, movements, nreq>>

\* StockMovement.create, order.save, commitTransaction and the emit of
\* order:cancelled
CancelCommit(p) ==
  LET pr == proc[p]
      out == IF pr.notesTooLong /\ pr.stockMovements # <<>> THEN "ValidationError"
             ELSE IF pr.target \in pr.dirtyO THEN "WriteConflict"
             ELSE "cancelled"
      events == IF out = "cancelled" THEN <<Event("order:cancelled", "", 0)>>
                ELSE <<>>
  IN
  /\ pr.pc = "cancel_commit"
  /\ IF out # "cancelled"
     THEN /\ proc' = [proc EXCEPT ![p] = IdleProc]
          /\ UNCHANGED <<variants, orders, movements>>
     ELSE /\ movements' = Recorded(Referenced(p, "Cancelled Order", pr.target))
          /\ orders' = [orders EXCEPT ![pr.target].status = "cancelled",
                                      ![pr.target].cancelledAt = TRUE]
          /\ variants' = CommitVariants(p)
          /\ proc' = [Stale(p, pr.wr, {pr.target}, {}) EXCEPT ![p] = IdleProc]
  /\ last' = DidOn(p, "cancel", pr.target, 0, out, "", 0, events)
  /\ sockets' = Emit(sockets, ReqTenant, last'.events)
  /\ UNCHANGED <<purchaseOrders, nreq>>

(* -------------------- PUT /api/orders/:id/status ----------------------- *)
\* the values the request validator lets through
StatusValues == {"confirmed", "processing", "shipped", "delivered"}

\* the values the modelled requests ask for
StatusRequested == {"confirmed", "shipped", "delivered"}

\* an updateStatus that refuses no status
StatusRefusedNone == {}

\* statuses in which updateStatus is refused
StatusRefused == {"cancelled", "delivered"}

\* the request for status st of order id arrives: Order.findOne with the
\* tenant filter and the terminal-state guards
StatusFind(p, id, st) ==
  LET order == orders[id]
      out == IF order.tenantId # ReqTenant THEN "NotFound"
             ELSE IF order.status \in StatusRefused THEN "CannotUpdate"
             ELSE "pending"
  IN
  /\ nreq' = nreq + 1
  /\ proc' = [proc EXCEPT ![p] =
       IF out # "pending" THEN IdleProc
       ELSE [IdleProc EXCEPT !.pc = "status_save", !.target = id, !.arg = st,
                             !.order = order]]
  /\ last' = Did(p, "updateStatus", id, 0, out)
  /\ sockets' = Emit(sockets, ReqTenant, last'.events)
  /\ UNCHANGED <<variants, orders, purchaseOrders, movements>>

StartUpdateStatus(p) ==
  /\ proc[p].pc = "idle"
  /\ nreq < MaxRequests
  /\ \E id \in 1..Len(orders), st \in StatusRequested \cap StatusValues :
       StatusFind(p, id, st)

\* order.status = req.body.status; order.save(): an update of the modified
\* path alone, without a session; then the emit of order:updated
StatusSave(p) ==
  LET pr == proc[p] IN
  /\ pr.pc = "status_save"
  /\ IF pr.order.status # pr.arg
     THEN /\ orders' = [orders EXCEPT ![pr.target].status = pr.arg]
          /\ proc' = [Stale(p, {}, {pr.target}, {}) EXCEPT ![p] = IdleProc]
     ELSE /\ proc' = [proc EXCEPT ![p] = IdleProc]
          /\ UNCHANGED orders
  /\ last' = DidOn(p, "updateStatus", pr.target, 0, "updated", "", 0,
                  <<Event("order:updated", "", 0)>>)
  /\ sockets' = Emit(sockets, ReqTenant, last'.events)
  /\ UNCHANGED <<variants, purchaseOrders, movements, nreq>>

(* ----------------------- POST /api/stock/adjust ------------------------ *)
Adjustment(v, q, t, long) ==
  [variantId |-> v, quantity |-> q, type |-> t, notesTooLong |-> long]

\* notesTooLong: `notes` is longer than the 500 characters StockMovement.notes
\* allows (the request validator only trims it)
AdjustBodies ==
  { Adjustment("v1", 1, "adjustment", FALSE),
    Adjustment("v1", 1, "adjustment", TRUE),
    Adjustment("v1", 0 - 1, "adjustment", FALSE),
    Adjustment("v1", 0 - 2, "return", FALSE),
    Adjustment("v2", 1, "return", FALSE) }

\* the least stock the conditional update asks for:
\* quantity < 0 ? Math.abs(quantity) : 0
AdjustMinStock(quantity) == IF quantity < 0 THEN 0 - quantity ELSE 0

\* the movement recorded for an adjustment; `after` is variant.stock of the
\* update's result
AdjustMovement(after, body) ==
  [variantId |-> body.variantId, type |-> body.type, quantity |-> body.quantity,
   previousStock |-> after - body.quantity, newStock |-> after,
   reference |-> "", referenceId |-> 0]

\* the request with body `body` arrives: Variant.findOneAndUpdate without a
\* session, applied to the committed unit at once (it waits while an open
\* transaction holds the unit)
AdjustUpdate(p, body) ==
  LET v == body.variantId
      after == Inc(variants, v, body.quantity)
      found == Matches(variants, v, ReqTenant, AdjustMinStock(body.quantity))
  IN
  /\ nreq' = nreq + 1
  /\ ~LockedByOther(p, v)
  /\ IF found
     THEN /\ variants' = after
          /\ proc' = [Stale(p, {v}, {}, {}) EXCEPT ![p] =
                        [IdleProc EXCEPT
                           !.pc = "adjust_record",
                           !.notesTooLong = body.notesTooLong,
                           !.variant = after[v],
                           !.stockMovements =
                              <<AdjustMovement(after[v].stock, body)>>]]
     ELSE /\ proc' = [proc EXCEPT ![p] = IdleProc]
          /\ UNCHANGED variants
  /\ last' = DidOn(p, "adjust", 0, 0,
                  IF found THEN "pending" ELSE "NotFoundOrInsufficient",
                  v, body.quantity, <<>>)
  /\ sockets' = Emit(sockets, ReqTenant, last'.events)
  /\ UNCHANGED <<orders, purchaseOrders, movements>>

StartAdjust(p) ==
  /\ proc[p].pc = "idle"
  /\ nreq < MaxRequests
  /\ \E body \in AdjustBodies : AdjustUpdate(p, body)

\* StockMovement.create without a session; it throws ValidationError on notes
\* that are too long.  Then the emits for the document the update returned
AdjustRecord(p) ==
  LET pr == proc[p]
      events == IF pr.notesTooLong THEN <<>>
                ELSE StockEvents(pr.stockMovements[1].variantId, pr.variant)
  IN
  /\ pr.pc = "adjust_record"
  /\ movements' = IF pr.notesTooLong THEN movements
                  ELSE Recorded(pr.stockMovements)
  /\ proc' = [proc EXCEPT ![p] = IdleProc]
  /\ last' = DidOn(p, "adjust", 0, 0,
                  IF pr.notesTooLong THEN "ValidationError" ELSE "adjusted",
                  "", 0, events)
  /\ sockets' = Emit(sockets, ReqTenant, last'.events)
  /\ UNCHANGED <<variants, orders, purchaseOrders, nreq>>

(* ------------- POST /api/purchase-orders/:id/receive ------------------- *)
ReceiveBodies ==
  { <<Line("v1", 1, FALSE)>>,
    <<Line("v1", 1, TRUE)>>,
    <<Line("v1", 2, FALSE), Line("v2", 1, FALSE)>> }

\* a receive query without the status filter
ReceivableAll ==
  {"draft", "sent", "confirmed", "partially_received", "received", "cancelled"}

\* statuses in which the PO is found by the receive query
Receivable == {"confirmed", "partially_received"}

\* po.items.find((i) => i.variantId.toString() === received.variantId):
\* the index of the first line for the unit, 0 when there is none
PoItemIndex(po, v) ==
  IF \E k \in 1..Len(po.items) : po.items[k].variantId = v
  THEN CHOOSE k \in 1..Len(po.items) :
         /\ po.items[k].variantId = v
         /\ \A j \in 1..(k - 1) : po.items[j].variantId # v
  ELSE 0

\* a remainder that forgets what was received
RemainingLoose(poItem) == poItem.quantityOrdered

\* remainingToReceive
Remaining(poItem) == poItem.quantityOrdered - poItem.quantityReceived

\* the movement pushed for a received line
PurchaseMovement(after, received) ==
  [variantId |-> received.variantId, type |-> "purchase",
   quantity |-> received.quantity,
   previousStock |-> after - received.quantity, newStock |-> after,
   reference |-> "", referenceId |-> 0]

\* po.items.every((item) => item.quantityReceived >= item.quantityOrdered)
AllReceived(po) ==
  \A k \in 1..Len(po.items) :
    po.items[k].quantityReceived >= po.items[k].quantityOrdered

\* the request to receive `body` on purchase order id arrives:
\* startTransaction and PurchaseOrder.findOne with the tenant and status
\* filter, in the session (the transaction's snapshot)
ReceiveFind(p, id, body) ==
  LET po == purchaseOrders[id]
      found == po.tenantId = ReqTenant /\ po.status \in Receivable
  IN
  /\ nreq' = nreq + 1
  /\ proc' = [proc EXCEPT ![p] =
       IF found
       THEN [IdleProc EXCEPT !.pc = "receive_loop", !.target = id,
                             !.items = body, !.po = po,
                             !.inTxn = TRUE, !.view = variants]
       ELSE IdleProc]
  /\ last' = Did(p, "receive", id, 0, IF found THEN "pending" ELSE "PONotReceivable")
  /\ sockets' = Emit(sockets, ReqTenant, last'.events)
  /\ UNCHANGED <<variants, orders, purchaseOrders, movements>>

StartReceive(p) ==
  /\ proc[p].pc = "idle"
  /\ nreq < MaxRequests
  /\ \E id \in 1..Len(purchaseOrders), body \in ReceiveBodies :
       ReceiveFind(p, id, body)

\* one turn of the loop over the received items
ReceiveLine(p) ==
  LET pr == proc[p]
      received == pr.items[pr.i]
      v == received.variantId
      k == PoItemIndex(pr.po, v)
      poItem == pr.po.items[k]
      found == Matches(pr.view, v, ReqTenant, 0)
      after == Inc(pr.view, v, received.quantity)
      out == IF k = 0 THEN "NotInPO"
             ELSE IF received.quantity > Remaining(poItem) THEN "OverReceipt"
             ELSE IF found /\ WriteConflict(p, v) THEN "WriteConflict"
             ELSE "pending"
      step == [pr EXCEPT
                 !.i = @ + 1,
                 !.pc = IF pr.i = Len(pr.items) THEN "receive_commit"
                        ELSE "receive_loop",
                 !.po.items[k].quantityReceived = JsPlus(@, received)]
  IN
  /\ pr.pc = "receive_loop"
  /\ proc' = [proc EXCEPT ![p] =
       IF out # "pending" THEN IdleProc
       ELSE IF found
       THEN [step EXCEPT
               !.view = after, !.wr = @ \cup {v},
               !.stockMovements =
                  Append(@, PurchaseMovement(after[v].stock, received))]
       ELSE step]
  /\ last' = DidOn(p, "receive", pr.target, pr.i, out, v, received.quantity, <<>>)
  /\ sockets' = Emit(sockets, ReqTenant, last'.events)
  /\ UNCHANGED <<variants, orders, purchaseOrders, movements, nreq>>

\* the status recomputation, po.save, StockMovement.create,
\* commitTransaction and the emits: po:received, and stock:updated with
\* sm.newStock for every sm of stockMovements
ReceiveCommit(p) ==
  LET pr == proc[p]
      out == IF pr.target \in pr.dirtyP THEN "WriteConflict" ELSE "received"
      events == IF out # "received" THEN <<>>
                ELSE <<Event("po:received", "", 0)>> \o
                     [k \in 1..Len(pr.stockMovements) |->
                        Event("stock:updated", pr.stockMovements[k].variantId,
                              pr.stockMovements[k].newStock)]
  IN
  /\ pr.pc = "receive_commit"
  /\ IF out # "received"
     THEN /\ proc' = [proc EXCEPT ![p] = IdleProc]
          /\ UNCHANGED <<variants, purchaseOrders, movements>>
     ELSE /\ purchaseOrders' =
               [purchaseOrders EXCEPT ![pr.target] =
                  [pr.po EXCEPT !.status = IF AllReceived(pr.po) THEN "received"
                                           ELSE "partially_received"]]
          /\ movements' = Recorded(Referenced(p, "PO", pr.target))
          /\ variants' = CommitVariants(p)
          /\ proc' = [Stale(p, pr.wr, {}, {pr.target}) EXCEPT ![p] = IdleProc]
  /\ last' = DidOn(p, "receive", pr.target, 0, out, "", 0, events)
  /\ sockets' = Emit(sockets, ReqTenant, last'.events)
  /\ UNCHANGED <<orders, nreq>>

(* ---------------- PUT /api/purchase-orders/:id/status ------------------ *)
\* the values the request validator lets through
PoStatusValues == {"sent", "confirmed", "cancelled"}

\* a transition table that lets every status be left
ValidTransitionsLoose(status) == {"sent", "confirmed", "cancelled"}

\* validTransitions[po.status] || []
ValidTransitions(status) ==
  CASE status = "draft" -> {"sent", "cancelled"}
    [] status = "sent" -> {"confirmed", "cancelled"}
    [] status = "confirmed" -> {"cancelled"}
    [] status = "partially_received" -> {"cancelled"}
    [] OTHER -> {}

\* the request for status st of purchase order id arrives:
\* PurchaseOrder.findOne and the transition check
PoStatusFind(p, id, st) ==
  LET po == purchaseOrders[id]
      out == IF po.tenantId # ReqTenant THEN "NotFound"
             ELSE IF st \notin ValidTransitions(po.status) THEN "CannotTransition"
             ELSE "pending"
  IN
  /\ nreq' = nreq + 1
  /\ proc' = [proc EXCEPT ![p] =
       IF out # "pending" THEN IdleProc
       ELSE [IdleProc EXCEPT !.pc = "po_status_save", !.target = id, !.arg = st,
                             !.po = po]]
  /\ last' = Did(p, "poStatus", id, 0, out)
  /\ sockets' = Emit(sockets, ReqTenant, last'.events)
  /\ UNCHANGED <<variants, orders, purchaseOrders, movements>>

\* po.status = req.body.status; po.save(): an update of the modified path
\* alone, without a session; then the emit of po:updated
PoStatusSave(p) ==
  LET pr == proc[p] IN
  /\ pr.pc = "po_status_save"
  /\ purchaseOrders' = [purchaseOrders EXCEPT ![pr.target].status = pr.arg]
  /\ proc' = [Stale(p, {}, {}, {pr.target}) EXCEPT ![p] = IdleProc]
  /\ last' = DidOn(p, "poStatus", pr.target, 0, "updated", "", 0,
                  <<Event("po:updated", "", 0)>>)
  /\ sockets' = Emit(sockets, ReqTenant, last'.events)
  /\ UNCHANGED <<variants, orders, movements, nreq>>

(* -------------------- DELETE /api/variants/:id ------------------------- *)
\* the units the modelled requests delete
DeleteTargets == {"v1"}

\* Variant.findOneAndDelete without a session
DeleteVariant(p) ==
  /\ proc[p].pc = "idle"
  /\ nreq < MaxRequests
  /\ nreq' = nreq + 1
  /\ \E v \in DeleteTargets :
       LET found == Matches(variants, v, ReqTenant, 0) IN
       /\ ~LockedByOther(p, v)
       /\ variants' = IF found
                      THEN [variants EXCEPT ![v] = NoVariant]
                      ELSE variants
       /\ proc' = IF found THEN Stale(p, {v}, {}, {}) ELSE proc
       /\ last' = DidOn(p, "deleteVariant", 0, 0,
                       IF found THEN "deleted" ELSE "NotFound", v, 0, <<>>)
       /\ sockets' = Emit(sockets, ReqTenant, last'.events)
  /\ UNCHANGED <<orders, purchaseOrders, movements>>

(* ---------------------- PUT /api/variants/:id -------------------------- *)
\* a request body: the unit of the path, a lowStockThreshold, a stock and a
\* price
VariantBody(v, threshold, stock, price) ==
  [variantId |-> v, lowStockThreshold |-> threshold, stock |-> stock,
   price |-> price]

\* the modelled requests: a lower threshold with a higher price and a higher
\* threshold for v1, and one for the other tenant's unit, each with a stock
\* in the body
UpdateBodies ==
  { VariantBody("v1", 0, 0, SeedPrice + 1),
    VariantBody("v1", SeedThreshold + 1, SeedStock + 1, SeedPrice),
    VariantBody("v3", 0, 0, SeedPrice) }

\* an update that takes stock from the body as well
VariantUpdateWithStock(doc, body) ==
  [doc EXCEPT !.lowStockThreshold = body.lowStockThreshold,
              !.price = body.price, !.stock = body.stock]

\* the update document: of the body only sku, attributes, price, costPrice,
\* lowStockThreshold and isActive are read
VariantUpdate(doc, body) ==
  [doc EXCEPT !.lowStockThreshold = body.lowStockThreshold,
              !.price = body.price]

\* Variant.findOneAndUpdate without a session
UpdateVariant(p) ==
  /\ proc[p].pc = "idle"
  /\ nreq < MaxRequests
  /\ nreq' = nreq + 1
  /\ \E body \in UpdateBodies :
       LET v == body.variantId
           found == Matches(variants, v, ReqTenant, 0)
       IN
       /\ ~LockedByOther(p, v)
       /\ variants' = IF found
                      THEN [variants EXCEPT ![v] = VariantUpdate(@, body)]
                      ELSE variants
       /\ proc' = IF found THEN Stale(p, {v}, {}, {}) ELSE proc
       /\ last' = DidOn(p, "updateVariant", 0, 0,
                       IF found THEN "updated" ELSE "NotFound", v, 0, <<>>)
       /\ sockets' = Emit(sockets, ReqTenant, last'.events)
  /\ UNCHANGED <<orders, purchaseOrders, movements>>

(* ---------------------------- specification ---------------------------- *)
\* the stock the seed script gives each unit
InitialStock == [v \in Variants |-> IF v = "v1" THEN SeedStock ELSE 1]

\* a purchase order in status confirmed, as the seed script creates one
SeedPurchaseOrders ==
  << [tenantId |-> "t1", status |-> "confirmed",
      items |-> << [variantId |-> "v1", quantityOrdered |-> 2, quantityReceived |-> 0],
                   [variantId |-> "v2", quantityOrdered |-> 1, quantityReceived |-> 0] >>] >>

\* the units at the start
SeedVariants ==
  [v \in Variants |->
     [exists |-> TRUE, stock |-> InitialStock[v], lowStockThreshold |-> SeedThreshold,
      price |-> SeedPrice]]

Init ==
  /\ variants = SeedVariants
  /\ orders = <<>>
  /\ purchaseOrders = SeedPurchaseOrders
  /\ movements = <<>>
  /\ proc = [p \in Procs |-> IdleProc]
  /\ nreq = 0
  /\ last = Did("p1", "none", 0, 0, "none")
  /\ sockets = NoSockets

Next ==
  \E p \in Procs :
    \/ StartCreateOrder(p)
    \/ OrderLine(p)
    \/ OrderCommit(p)
    \/ OrderEmit(p)
    \/ StartCancel(p)
    \/ CancelLine(p)
    \/ CancelCommit(p)
    \/ StartUpdateStatus(p)
    \/ StatusSave(p)
    \/ StartAdjust(p)
    \/ AdjustRecord(p)
    \/ StartReceive(p)
    \/ ReceiveLine(p)
    \/ ReceiveCommit(p)
    \/ DeleteVariant(p)

Spec == Init /\ [][Next]_vars

(* ------------------------ the oversell race ---------------------------- *)
\* largest stock of the contended unit
MaxRaceStock == 5

\* two order requests of one line each on unit v1 have arrived and are about
\* to issue their update; either quantity alone is in stock, both are not
RaceInit ==
  \E s \in 1..MaxRaceStock, q1 \in 1..MaxRaceStock, q2 \in 1..MaxRaceStock :
    /\ q1 <= s /\ q2 <= s /\ q1 + q2 > s
    /\ variants = [SeedVariants EXCEPT !["v1"].stock = s]
    /\ orders = <<>>
    /\ purchaseOrders = <<>>
    /\ movements = <<>>
    /\ proc = [p \in Procs |->
                 [IdleProc EXCEPT
                    !.pc = "order_loop",
                    !.items = <<Line("v1", IF p = "p1" THEN q1 ELSE q2, FALSE)>>]]
    /\ nreq = 2
    /\ last = Did("p1", "none", 0, 0, "none")
    /\ sockets = NoSockets

RaceNext == \E p \in Procs : OrderLine(p) \/ OrderCommit(p) \/ OrderEmit(p)

SpecRace == RaceInit /\ [][RaceNext]_vars

(* ---------------------- an order and its cancellation ------------------ *)
\* the only order request: one line on v1 for a quantity in stock
ReversalCreateOrder(p) ==
  /\ proc[p].pc = "idle"
  /\ nreq < MaxRequests
  /\ orders = <<>>
  /\ \A q \in Procs : proc[q].pc \notin {"order_loop", "order_commit"}
  /\ nreq' = nreq + 1
  /\ \E n \in 1..SeedStock, s \in BOOLEAN :
       OrderTurn(p, [IdleProc EXCEPT !.pc = "order_loop",
                                     !.items = <<Line("v1", n, s)>>])

\* adjustments of another unit
ReversalAdjust(p) ==
  /\ proc[p].pc = "idle"
  /\ nreq < MaxRequests
  /\ \E n \in {0 - 1, 1}, long \in BOOLEAN :
       AdjustUpdate(p, Adjustment("v2", n, "adjustment", long))

\* requests that leave v1 alone but for the one order and its cancellation
ReversalNext ==
  \E p \in Procs :
    \/ ReversalCreateOrder(p)
    \/ OrderCommit(p)
    \/ OrderEmit(p)
    \/ StartCancel(p)
    \/ CancelLine(p)
    \/ CancelCommit(p)
    \/ ReversalAdjust(p)
    \/ AdjustRecord(p)

SpecReversal == Init /\ [][ReversalNext]_vars

(* ------------------------ the life of one order ------------------------ *)
\* a status request with any value the validator lets through
StatusAny(p) ==
  /\ proc[p].pc = "idle"
  /\ nreq < MaxRequests
  /\ \E id \in 1..Len(orders), st \in StatusValues : StatusFind(p, id, st)

\* one order, and status and cancel requests on it
StatusNext ==
  \E p \in Procs :
    \/ ReversalCreateOrder(p)
    \/ OrderCommit(p)
    \/ OrderEmit(p)
    \/ StatusAny(p)
    \/ StatusSave(p)
    \/ StartCancel(p)
    \/ CancelLine(p)
    \/ CancelCommit(p)

SpecStatus == Init /\ [][StatusNext]_vars

(* ------------------------- purchase orders ----------------------------- *)
PoLine(v, ordered) ==
  [variantId |-> v, quantityOrdered |-> ordered, quantityReceived |-> 0]

\* the purchase orders at the start: the confirmed one, a draft as POST
\* /api/purchase-orders leaves it, and a confirmed one of another tenant
PoSeed ==
  SeedPurchaseOrders \o
  << [tenantId |-> "t1", status |-> "draft", items |-> <<PoLine("v1", 1)>>],
     [tenantId |-> "t2", status |-> "confirmed", items |-> <<PoLine("v3", 1)>>] >>

PoRequest(id, body) == [id |-> id, body |-> body]

\* the receive requests: on purchase order 1 a line in part, in full, as a
\* string, the same unit twice, every line, a good line before one over its
\* remainder, a good line before a unit that is no line of the order; and one
\* request on each other purchase order
PoReceiveRequests ==
  { PoRequest(1, <<Line("v1", 1, FALSE)>>),
    PoRequest(1, <<Line("v1", 2, FALSE)>>),
    PoRequest(1, <<Line("v1", 1, TRUE)>>),
    PoRequest(1, <<Line("v1", 1, FALSE), Line("v1", 1, FALSE)>>),
    PoRequest(1, <<Line("v1", 1, FALSE), Line("v2", 1, FALSE)>>),
    PoRequest(1, <<Line("v1", 1, FALSE), Line("v2", 2, FALSE)>>),
    PoRequest(1, <<Line("v2", 1, FALSE), Line("v3", 1, FALSE)>>),
    PoRequest(2, <<Line("v1", 1, FALSE)>>),
    PoRequest(3, <<Line("v3", 1, FALSE)>>) }

\* the status requests: every value on the purchase orders of the tenant,
\* a cancellation on the other tenant's
PoStatusRequests ==
  { PoRequest(id, st) : id \in {1, 2}, st \in PoStatusValues }
    \cup { PoRequest(3, "cancelled") }

PoInit ==
  /\ variants = SeedVariants
  /\ orders = <<>>
  /\ purchaseOrders = PoSeed
  /\ movements = <<>>
  /\ proc = [p \in Procs |-> IdleProc]
  /\ nreq = 0
  /\ last = Did("p1", "none", 0, 0, "none")
  /\ sockets = NoSockets

PoStartReceive(p) ==
  /\ proc[p].pc = "idle"
  /\ nreq < MaxRequests
  /\ \E r \in PoReceiveRequests : ReceiveFind(p, r.id, r.body)

PoStartStatus(p) ==
  /\ proc[p].pc = "idle"
  /\ nreq < MaxRequests
  /\ \E r \in PoStatusRequests : PoStatusFind(p, r.id, r.body)

PoNext ==
  \E p \in Procs :
    \/ PoStartReceive(p)
    \/ ReceiveLine(p)
    \/ ReceiveCommit(p)
    \/ PoStartStatus(p)
    \/ PoStatusSave(p)

SpecPO == PoInit /\ [][PoNext]_vars

(* ------------------------------ properties ----------------------------- *)
\* the committed data the properties speak of
db == <<variants, orders, movements>>

\* the step just taken is a step of operation op that sent an error
Failed(op) == last'.op = op /\ last'.result \notin {"pending", "committed", "created",
                                                     "cancelled", "updated", "adjusted",
                                                     "received", "deleted"}

\* the sum of the deltas of the movements ms of unit v
RECURSIVE SumDeltas(_, _)
SumDeltas(ms, v) ==
  IF ms = <<>> THEN 0
  ELSE (IF Head(ms).variantId = v THEN Head(ms).quantity ELSE 0)
       + SumDeltas(Tail(ms), v)

\* the sum of the quantities of the order lines `items` of unit v
RECURSIVE SumQuantity(_, _)
SumQuantity(items, v) ==
  IF items = <<>> THEN 0
  ELSE (IF Head(items).variantId = v THEN Head(items).quantity ELSE 0)
       + SumQuantity(Tail(items), v)

\* the movements appended by the step
Appended == SubSeq(movements', Len(movements) + 1, Len(movements'))

\* C1: the quantity on hand of every stock unit is never negative, in the
\* committed data and in what any open transaction sees, whatever orders,
\* cancellations, receipts and adjustments interleave.
NonNegativeStock ==
  \A v \in Variants :
    /\ variants[v].stock >= 0
    /\ \A p \in Procs : proc[p].view[v].stock >= 0

\* a deduction was refused on a unit that is sold out
NonNegativeStockWitness ==
  /\ variants["v1"].exists
  /\ variants["v1"].stock = 0
  /\ last.op = "createOrder"
  /\ last.result = "InsufficientStock"

\* C2: of two concurrent one-line orders on a unit whose stock covers either
\* but not both, exactly one creates an order and reduces the stock by its
\* quantity, and the other is answered InsufficientStock and changes nothing.
ExactlyOneWinner ==
  [][ /\ Failed("createOrder") =>
           /\ last'.result = "InsufficientStock"
           /\ UNCHANGED db
      /\ (last'.op = "createOrder" /\ last'.result = "committed") =>
           /\ Len(orders') = Len(orders) + 1
           /\ variants'["v1"].stock =
                 variants["v1"].stock - orders'[Len(orders')].items[1].quantity
      /\ (\A p \in Procs : proc'[p].pc = "idle") =>
           /\ Len(orders') = 1
           /\ Len(movements') = 1
    ]_vars

\* C3: a step of order creation other than its commit changes no committed
\* unit, order or movement, and a failing step ends the request with its
\* transaction discarded: a request that fails on any line leaves every unit
\* as it was, no order and no movement.
OrderAtomicity ==
  [][ /\ (last'.op = "createOrder" /\ last'.result # "committed") => UNCHANGED db
      /\ Failed("createOrder") => proc'[last'.p] = IdleProc
    ]_vars

\* an order failed on its second line, after its first line was deducted
OrderAtomicityWitness ==
  /\ last.op = "createOrder"
  /\ last.line = 2
  /\ last.result \in {"InsufficientStock", "NotFound"}
  /\ orders = <<>>

\* C4: when no operation is in progress, the quantity of every unit is its
\* initial quantity plus the sum of the deltas of its movements.
LedgerComplete ==
  (\A p \in Procs : proc[p].pc = "idle") =>
    \A v \in Variants :
      variants[v].exists =>
        variants[v].stock = InitialStock[v] + SumDeltas(movements, v)

\* C5: every step that changes the committed quantity of a unit appends, in
\* the same step, movements of that unit whose deltas make up the change.
MutationWithMovement ==
  [][ \A v \in Variants :
        (variants[v].exists /\ variants'[v].exists
           /\ variants'[v].stock # variants[v].stock) =>
          /\ \E k \in 1..Len(Appended) : Appended[k].variantId = v
          /\ variants'[v].stock = variants[v].stock + SumDeltas(Appended, v)
    ]_vars

\* C6: every movement has newStock = previousStock + quantity; the delta of a
\* sale is minus the quantity of a line of its order, that of a cancellation
\* return or a purchase receipt is positive.
MovementArithmetic ==
  \A k \in 1..Len(movements) :
    LET m == movements[k] IN
    /\ m.newStock = m.previousStock + m.quantity
    /\ m.type = "sale" =>
         \E j \in 1..Len(orders[m.referenceId].items) :
           /\ orders[m.referenceId].items[j].variantId = m.variantId
           /\ m.quantity = 0 - orders[m.referenceId].items[j].quantity
    /\ (m.type = "purchase" \/ m.reference = "Cancelled Order") => m.quantity > 0

\* C7: when movements of a unit are recorded, the newStock of the latest of
\* them is the quantity the unit has at that instant.
MovementMatchesStock ==
  [][ \A k \in 1..Len(Appended) :
        LET m == Appended[k] IN
        (/\ variants'[m.variantId].exists
         /\ \A j \in (k + 1)..Len(Appended) : Appended[j].variantId # m.variantId)
          => m.newStock = variants'[m.variantId].stock
    ]_vars

\* the movements of order 1
OfOrder1 == SelectSeq(movements, LAMBDA m : m.referenceId = 1 /\ m.reference # "")

\* C8: an order of quantity Q on a unit with stock S, cancelled with no other
\* operation on the unit in between, leaves the stock at S and exactly two
\* movements for the order: a sale of -Q and a return of +Q.
CancellationReversible ==
  (orders # <<>> /\ orders[1].status = "cancelled") =>
    LET Q == orders[1].items[1].quantity IN
    /\ variants["v1"].stock = InitialStock["v1"]
    /\ Len(OfOrder1) = 2
    /\ OfOrder1[1].type = "sale" /\ OfOrder1[1].quantity = 0 - Q
    /\ OfOrder1[2].type = "return" /\ OfOrder1[2].quantity = Q
    /\ OfOrder1[1].variantId = "v1" /\ OfOrder1[2].variantId = "v1"

\* the order was cancelled
CancellationReversibleWitness ==
  /\ orders # <<>>
  /\ orders[1].status = "cancelled"
  /\ orders[1].cancelledAt
  /\ last.op = "cancel"
  /\ last.result = "cancelled"

\* C9: a cancel request that finds its order cancelled, shipped or delivered
\* is answered with an error; a cancel step that does not succeed changes no
\* order, unit or movement; and no cancel succeeds on an order that is
\* cancelled, shipped or delivered at that instant.
CancelRefusal ==
  [][ last'.op = "cancel" =>
        LET current == orders[last'.ref].status IN
        /\ (nreq' = nreq + 1 /\ current \in {"cancelled", "shipped", "delivered"}) =>
             last'.result \in {"AlreadyCancelled", "CannotCancel"}
        /\ last'.result # "cancelled" => UNCHANGED db
        /\ last'.result = "cancelled" =>
             current \notin {"cancelled", "shipped", "delivered"}
    ]_vars

\* a cancel of a shipped order was refused
CancelRefusalWitness ==
  /\ last.op = "cancel"
  /\ last.result = "CannotCancel"
  /\ orders[last.ref].status = "shipped"
  /\ movements # <<>>

\* C10: a successful cancel adds to every unit the quantities of the order's
\* lines on it, appends one return movement of +quantity per line, and sets
\* the order to cancelled with its timestamp, all in one step.
CancelRestoresEveryLine ==
  [][ (last'.op = "cancel" /\ last'.result = "cancelled") =>
        LET id == last'.ref
            items == orders[id].items
        IN
        /\ orders'[id].status = "cancelled"
        /\ orders'[id].cancelledAt
        /\ Len(Appended) = Len(items)
        /\ \A k \in 1..Len(items) :
             /\ k <= Len(Appended)
             /\ Appended[k].type = "return"
             /\ Appended[k].variantId = items[k].variantId
             /\ Appended[k].quantity = items[k].quantity
        /\ \A v \in Variants :
             variants'[v].stock = variants[v].stock + SumQuantity(items, v)
    ]_vars

\* C11: an order whose status is cancelled is cancelled in every later state.
CancelledStaysCancelled ==
  [][ \A id \in 1..Len(orders) :
        orders[id].status = "cancelled" => orders'[id].status = "cancelled"
    ]_vars

\* the place of a status in the progression
Rank(status) ==
  CASE status = "pending" -> 1
    [] status = "confirmed" -> 2
    [] status = "processing" -> 3
    [] status = "shipped" -> 4
    [] status = "delivered" -> 5
    [] OTHER -> 6

\* C12: every change of an order's status other than a cancellation moves
\* the order forward along pending, confirmed, processing, shipped, delivered.
StatusMonotonic ==
  [][ \A id \in 1..Len(orders) :
        (/\ orders'[id].status # orders[id].status
         /\ orders[id].status # "cancelled"
         /\ orders'[id].status # "cancelled")
          => Rank(orders'[id].status) > Rank(orders[id].status)
    ]_vars

ReceivedWithinOrdered ==
  \A id \in 1..Len(purchaseOrders) :
    \A k \in 1..Len(purchaseOrders[id].items) :
      purchaseOrders[id].items[k].quantityReceived
        <= purchaseOrders[id].items[k].quantityOrdered

\* every line of purchase order po has arrived in full
FullyArrived(po) ==
  \A k \in 1..Len(po.items) :
    po.items[k].quantityReceived = po.items[k].quantityOrdered

\* something of purchase order po has arrived
SomeArrived(po) ==
  \E k \in 1..Len(po.items) : po.items[k].quantityReceived > 0

\* C15: a purchase order that is not cancelled has status received exactly
\* when every line has quantity received = quantity ordered, and status
\* partially_received exactly when some but not all of it has arrived.
PoStatusMatchesReceipts ==
  \A id \in 1..Len(purchaseOrders) :
    LET po == purchaseOrders[id] IN
    po.status # "cancelled" =>
      /\ po.status = "received" <=> FullyArrived(po)
      /\ po.status = "partially_received" <=> (SomeArrived(po) /\ ~FullyArrived(po))

ReceivedStaysReceived ==
  [][ \A id \in 1..Len(purchaseOrders) :
        purchaseOrders[id].status = "received"
          => purchaseOrders'[id].status = "received"
    ]_vars

\* the committed purchase orders, units and movements
podb == <<purchaseOrders, variants, movements>>

\* C18: a receive request goes on exactly when its purchase order belongs to
\* the tenant and is confirmed or partially_received, and is otherwise
\* answered 'PO not found or not in receivable status' with no purchase
\* order, stock quantity or movement changed; a receive commits only on a
\* purchase order that is confirmed or partially_received at that instant.
ReceiveOnlyReceivable ==
  [][ last'.op = "receive" =>
        LET po == purchaseOrders[last'.ref]
            ok == po.tenantId = "t1"
                    /\ po.status \in {"confirmed", "partially_received"}
        IN
        /\ nreq' # nreq =>
             /\ UNCHANGED podb
             /\ last'.result = (IF ok THEN "pending" ELSE "PONotReceivable")
        /\ last'.result = "received" => ok
    ]_vars

\* a receive on a purchase order that was received in full was refused
ReceiveOnlyReceivableWitness ==
  /\ last.op = "receive"
  /\ last.result = "PONotReceivable"
  /\ purchaseOrders[last.ref].status = "received"

\* the lines of purchase order po for unit v
LinesOf(po, v) == {k \in 1..Len(po.items) : po.items[k].variantId = v}

\* C19: a line of a receive call is rejected when its unit is no line of the
\* purchase order, or when it asks for more than the line's ordered quantity
\* minus what was received, earlier lines of the call included; a line that
\* asks for no more is not rejected; a rejection ends the call, and no step
\* of a call that does not commit changes a purchase order, a stock quantity
\* or the movements.
ReceiveRejectsWhole ==
  [][ last'.op = "receive" =>
        LET pr == proc[last'.p] IN
        /\ last'.result # "received" => UNCHANGED podb
        /\ last'.line > 0 =>
             LET received == pr.items[last'.line]
                 lines == LinesOf(pr.po, received.variantId)
             IN
             /\ last'.result = "NotInPO" <=> lines = {}
             /\ last'.result = "OverReceipt" <=>
                  \E k \in lines :
                    /\ \A j \in lines : k <= j
                    /\ received.quantity >
                         pr.po.items[k].quantityOrdered - pr.po.items[k].quantityReceived
             /\ last'.result \in {"NotInPO", "OverReceipt"} =>
                  proc'[last'.p] = IdleProc
    ]_vars

\* the second line of a call was over its remainder, on a purchase order
\* that has a line received in part
ReceiveRejectsWholeWitness ==
  /\ last.op = "receive"
  /\ last.result = "OverReceipt"
  /\ last.line = 2
  /\ purchaseOrders[last.ref].items[1].quantityReceived = 1
  /\ purchaseOrders[last.ref].status = "partially_received"

\* the sum of the deltas of the purchase movements ms of purchase order id
\* and unit v
RECURSIVE SumPurchases(_, _, _)
SumPurchases(ms, id, v) ==
  IF ms = <<>> THEN 0
  ELSE (IF /\ Head(ms).type = "purchase" /\ Head(ms).reference = "PO"
           /\ Head(ms).referenceId = id /\ Head(ms).variantId = v
        THEN Head(ms).quantity ELSE 0)
       + SumPurchases(Tail(ms), id, v)

\* the quantity received of unit v over the lines of the purchase orders pos
RECURSIVE SumReceived(_, _)
SumReceived(pos, v) ==
  IF pos = <<>> THEN 0
  ELSE LET lines == Head(pos).items
           of == {k \in 1..Len(lines) : lines[k].variantId = v}
       IN (IF of = {} THEN 0 ELSE lines[CHOOSE k \in of : TRUE].quantityReceived)
          + SumReceived(Tail(pos), v)

\* C20: for every line of every purchase order, the purchase movements of
\* the order and unit sum to the line's quantity received; and the rise of
\* every unit's stock is the quantity received of it over all purchase orders.
ReceiptAccounting ==
  /\ \A id \in 1..Len(purchaseOrders) :
       \A k \in 1..Len(purchaseOrders[id].items) :
         LET line == purchaseOrders[id].items[k] IN
         SumPurchases(movements, id, line.variantId) = line.quantityReceived
  /\ \A v \in Variants :
       variants[v].stock - InitialStock[v] = SumReceived(purchaseOrders, v)

\* the least stock of unit v that a request arriving now can be said to
\* find: the committed stock, or what the open transaction that holds the
\* unit has made of it
LeastStock(v) ==
  IF \E q \in Procs : v \in proc[q].wr /\ proc[q].view[v].stock < variants[v].stock
  THEN (CHOOSE n \in {proc[q].view[v].stock : q \in {r \in Procs : v \in proc[r].wr}} : TRUE)
  ELSE variants[v].stock

\* C21: deductions are admitted in their order of arrival for as long as the
\* stock lasts: the first deduction of a request on a unit of the tenant is
\* answered 'not applied' only when the stock of the unit at its arrival,
\* less what earlier deductions still in progress have taken, is less than
\* its amount.
DeductionsAdmittedInOrder ==
  [][ (/\ last'.op \in {"createOrder", "adjust"}
       /\ nreq' # nreq
       /\ last'.delta < 0
       /\ Matches(variants, last'.unit, ReqTenant, 0)
       /\ last'.result # "pending")
        => LeastStock(last'.unit) < 0 - last'.delta
    ]_vars

\* C22: a step of an order creation, a cancellation or a receive that is not
\* its successful commit changes no committed unit, order, purchase order or
\* movement; the commit publishes in one step the order or purchase order
\* record, the movements of its lines (one per line of a new order) and, for
\* every unit, a stock change equal to the sum of the deltas of those
\* movements.
MultiLineAtomic ==
  [][ last'.op \in {"createOrder", "cancel", "receive"} =>
        IF last'.result \in {"committed", "cancelled", "received"}
        THEN /\ <<orders', purchaseOrders'>> # <<orders, purchaseOrders>>
             /\ \A k \in 1..Len(Appended) :
                  Appended[k].referenceId = last'.ref
             /\ last'.op = "createOrder" =>
                  Len(Appended) = Len(orders'[last'.ref].items)
             /\ \A v \in Variants :
                  variants'[v].stock = variants[v].stock + SumDeltas(Appended, v)
        ELSE UNCHANGED <<variants, orders, purchaseOrders, movements>>
    ]_vars

\* an order of two lines on two units was committed while another
\* transaction was open
MultiLineAtomicWitness ==
  /\ last.op = "createOrder"
  /\ last.result = "committed"
  /\ Len(orders[last.ref].items) = 2
  /\ orders[last.ref].items[1].variantId # orders[last.ref].items[2].variantId
  /\ Len(movements) >= 2
  /\ \E q \in Procs : proc[q].inTxn

\* C23: a step of an order creation, a cancellation or a receive emits
\* events only when it commits the operation's transaction or follows that
\* commit, and a request that is answered with an error has emitted no
\* event.
EventsFollowCommit ==
  [][ last'.op \in {"createOrder", "cancel", "receive"} =>
        /\ last'.events # <<>> =>
             \/ last'.result \in {"committed", "cancelled", "received"}
             \/ proc[last'.p].pc = "order_emit"
        /\ Failed(last'.op) => last'.events = <<>>
    ]_vars

\* the events of kind `type` for unit v among es
EventsOf(es, type, v) ==
  SelectSeq(es, LAMBDA e : e.type = type /\ e.variantId = v)

\* the sale movements of order id for unit v
SalesOf(id, v) ==
  SelectSeq(movements, LAMBDA m : /\ m.reference = "Order"
                                  /\ m.referenceId = id
                                  /\ m.variantId = v)

\* C24: when an order creation is answered with success it has emitted one
\* order:created event and, for every unit of its lines, one stock:updated
\* event with the stock the order left the unit with, and one stock:low
\* event exactly when that stock is at most the unit's threshold.
OrderEventsPerUnit ==
  [][ (last'.op = "createOrder" /\ last'.result = "created") =>
        LET es == last'.events
            id == last'.ref
        IN
        /\ Len(EventsOf(es, "order:created", "")) = 1
        /\ \A v \in Variants :
             LET sales == SalesOf(id, v)
                 left == sales[Len(sales)].newStock
             IN
             IF sales = <<>>
             THEN /\ EventsOf(es, "stock:updated", v) = <<>>
                  /\ EventsOf(es, "stock:low", v) = <<>>
             ELSE /\ EventsOf(es, "stock:updated", v) =
                       <<Event("stock:updated", v, left)>>
                  /\ EventsOf(es, "stock:low", v) =
                       IF left <= variants[v].lowStockThreshold
                       THEN <<Event("stock:low", v, left)>> ELSE <<>>
    ]_vars

\* C25: the update of an adjustment is applied exactly when the unit exists
\* for the tenant and, for a negative delta, its stock covers the amount; a
\* refused update changes nothing and is answered 'not found or insufficient
\* stock'; an applied update adds the delta to the stock, and the request
\* then succeeds: it appends one movement of the unit, of kind adjustment or
\* return, that ends at the new stock, and emits stock:updated with the new
\* stock and stock:low exactly when the new stock is at most the threshold.
AdjustContract ==
  [][ last'.op = "adjust" =>
        IF nreq' # nreq
        THEN LET v == last'.unit
                 d == last'.delta
                 ok == /\ Matches(variants, v, ReqTenant, 0)
                       /\ (d >= 0 \/ variants[v].stock >= 0 - d)
             IN
             /\ UNCHANGED <<orders, purchaseOrders, movements>>
             /\ ok => /\ last'.result = "pending"
                      /\ variants' = Inc(variants, v, d)
             /\ ~ok => /\ last'.result = "NotFoundOrInsufficient"
                       /\ UNCHANGED variants
                       /\ last'.events = <<>>
        ELSE LET doc == proc[last'.p].variant
                 m == Appended[1]
             IN
             /\ last'.result = "adjusted"
             /\ UNCHANGED <<variants, orders, purchaseOrders>>
             /\ Len(Appended) = 1
             /\ m.type \in {"adjustment", "return"}
             /\ m.newStock = doc.stock
             /\ m.newStock = m.previousStock + m.quantity
             /\ last'.events =
                  <<Event("stock:updated", m.variantId, doc.stock)>> \o
                  (IF doc.stock <= doc.lowStockThreshold
                   THEN <<Event("stock:low", m.variantId, doc.stock)>> ELSE <<>>)
    ]_vars

\* C26: a refused deduction of an order line or of an adjustment is answered
\* 'not found' exactly when the unit does not exist for the tenant, and
\* 'insufficient stock' exactly when it exists and its stock does not cover
\* the amount.
DeductionErrorsDistinct ==
  [][ (/\ last'.op \in {"createOrder", "adjust"}
       /\ last'.delta < 0
       /\ last'.result \in {"NotFound", "InsufficientStock", "NotFoundOrInsufficient"})
        => LET docs == TxnView(last'.p)
               exists == Matches(docs, last'.unit, ReqTenant, 0)
           IN
           /\ last'.result \in {"NotFound", "InsufficientStock"}
           /\ last'.result = "NotFound" <=> ~exists
    ]_vars

(* --------------------------- two tenants ------------------------------- *)
\* the data at the start: unit v1 of the tenant, v2 an id that names no
\* unit, v3 a unit of the other tenant; order 1 of the other tenant with its
\* sale, id 2 that names no order; purchase order 1 of the tenant with a
\* line on each unit id, purchase order 2 of the other tenant, id 3 that
\* names no purchase order
TenantVariants == [SeedVariants EXCEPT !["v2"] = NoVariant]

TenantOrders ==
  << [tenantId |-> "t2", status |-> "pending",
      items |-> <<[variantId |-> "v3", quantity |-> 1, unitPrice |-> SeedPrice,
                   total |-> SeedPrice]>>,
      totalAmount |-> SeedPrice, cancelledAt |-> FALSE],
     NoOrder >>

TenantPurchaseOrders ==
  << [tenantId |-> "t1", status |-> "confirmed",
      items |-> <<PoLine("v1", 1), PoLine("v2", 1), PoLine("v3", 1)>>],
     [tenantId |-> "t2", status |-> "confirmed", items |-> <<PoLine("v3", 1)>>],
     NoPO >>

TenantMovements ==
  << [variantId |-> "v3", type |-> "sale", quantity |-> 0 - 1,
      previousStock |-> 2, newStock |-> 1,
      reference |-> "Order", referenceId |-> 1] >>

TenantInit ==
  /\ variants = TenantVariants
  /\ orders = TenantOrders
  /\ purchaseOrders = TenantPurchaseOrders
  /\ movements = TenantMovements
  /\ proc = [p \in Procs |-> IdleProc]
  /\ nreq = 0
  /\ last = Did("p1", "none", 0, 0, "none")
  /\ sockets = NoSockets

\* order requests on each unit id, alone and after a line of the tenant's
\* own unit
TenantOrderBodies ==
  { <<Line(v, 1, FALSE)>> : v \in Variants } \cup
  { <<Line("v1", 1, FALSE), Line(v, 1, FALSE)>> : v \in {"v2", "v3"} }

TenantCreateOrder(p) ==
  /\ proc[p].pc = "idle"
  /\ nreq < MaxRequests
  /\ nreq' = nreq + 1
  /\ \E body \in TenantOrderBodies :
       OrderTurn(p, [IdleProc EXCEPT !.pc = "order_loop", !.items = body])

\* adjustments up and down of each unit id
TenantAdjust(p) ==
  /\ proc[p].pc = "idle"
  /\ nreq < MaxRequests
  /\ \E v \in Variants, n \in {0 - 1, 1} :
       AdjustUpdate(p, Adjustment(v, n, "adjustment", FALSE))

\* receive requests on each purchase order id, for each unit id
TenantReceive(p) ==
  /\ proc[p].pc = "idle"
  /\ nreq < MaxRequests
  /\ \E id \in 1..Len(purchaseOrders), v \in Variants :
       ReceiveFind(p, id, <<Line(v, 1, FALSE)>>)

\* cancellations of each purchase order id
TenantPoStatus(p) ==
  /\ proc[p].pc = "idle"
  /\ nreq < MaxRequests
  /\ \E id \in 1..Len(purchaseOrders) : PoStatusFind(p, id, "cancelled")

TenantNext ==
  \E p \in Procs :
    \/ TenantCreateOrder(p)
    \/ OrderLine(p)
    \/ OrderCommit(p)
    \/ OrderEmit(p)
    \/ StartCancel(p)
    \/ CancelLine(p)
    \/ CancelCommit(p)
    \/ StartUpdateStatus(p)
    \/ StatusSave(p)
    \/ TenantAdjust(p)
    \/ AdjustRecord(p)
    \/ TenantReceive(p)
    \/ ReceiveLine(p)
    \/ ReceiveCommit(p)
    \/ TenantPoStatus(p)
    \/ PoStatusSave(p)

SpecTenant == TenantInit /\ [][TenantNext]_vars

\* the answer of operation op to a request that names no entity of the
\* tenant
AnswerNotFound(op) ==
  CASE op = "adjust" -> "NotFoundOrInsufficient"
    [] op = "receive" -> "PONotReceivable"
    [] OTHER -> "NotFound"

\* C27: no step changes a unit, an order or a purchase order of another
\* tenant, appends a movement of another tenant's unit or changes a recorded
\* movement, and no transaction writes another tenant's unit; a request that
\* names an order, a purchase order or a unit of another tenant is answered
\* as one that names none: the not-found answer of the operation for an
\* order, a purchase order or the unit of an order line or an adjustment,
\* and a line left without stock change or movement in a cancellation or a
\* receive.
TenantIsolation ==
  [][ LET p == last'.p
          op == last'.op
          foreign(t) == t # ReqTenant
      IN
      /\ \A v \in Variants : foreign(TenantOf(v)) =>
           /\ variants'[v] = variants[v]
           /\ \A q \in Procs : v \notin proc'[q].wr
      /\ \A id \in 1..Len(orders) : foreign(orders[id].tenantId) =>
           orders'[id] = orders[id]
      /\ \A id \in 1..Len(purchaseOrders) : foreign(purchaseOrders[id].tenantId) =>
           purchaseOrders'[id] = purchaseOrders[id]
      /\ SubSeq(movements', 1, Len(movements)) = movements
      /\ \A k \in 1..Len(Appended) : ~foreign(TenantOf(Appended[k].variantId))
      /\ (nreq' # nreq /\ op \in {"cancel", "updateStatus"}
             /\ foreign(orders[last'.ref].tenantId)) =>
           /\ last'.result = AnswerNotFound(op)
           /\ proc'[p] = IdleProc
      /\ (nreq' # nreq /\ op \in {"receive", "poStatus"}
             /\ foreign(purchaseOrders[last'.ref].tenantId)) =>
           /\ last'.result = AnswerNotFound(op)
           /\ proc'[p] = IdleProc
      /\ (op \in {"createOrder", "adjust"} /\ last'.unit # ""
             /\ (foreign(TenantOf(last'.unit)) \/ ~TxnView(p)[last'.unit].exists)) =>
           /\ last'.result = AnswerNotFound(op)
           /\ proc'[p] = IdleProc
      /\ (op \in {"cancel", "receive"} /\ last'.unit # ""
             /\ last'.result = "pending"
             /\ (foreign(TenantOf(last'.unit)) \/ ~proc[p].view[last'.unit].exists)) =>
           /\ proc'[p].view = proc[p].view
           /\ proc'[p].stockMovements = proc[p].stockMovements
    ]_vars

\* an order of the tenant failed on a line that names the other tenant's
\* unit, after a line on its own unit, and the other tenant's data is as at
\* the start
TenantIsolationWitness ==
  /\ last.op = "createOrder"
  /\ last.line = 2
  /\ last.unit = "v3"
  /\ last.result = "NotFound"
  /\ variants["v3"] = TenantVariants["v3"]
  /\ orders[1] = TenantOrders[1]

\* C28: every step leaves the movements recorded so far as they are, in
\* their order, and can only add movements after them.
LedgerAppendOnly ==
  [][ /\ Len(movements') >= Len(movements)
      /\ SubSeq(movements', 1, Len(movements)) = movements
    ]_vars

\* movements were recorded by an order, its cancellation and one more
\* operation
LedgerAppendOnlyWitness ==
  /\ Len(movements) >= 3
  /\ \E k \in 1..Len(movements) : movements[k].type = "sale"
  /\ \E k \in 1..Len(movements) : movements[k].reference = "Cancelled Order"

(* ------------------- the catalogue and the stock ----------------------- *)
\* one order on v1 and its cancellation, adjustments, receipts, and updates
\* of units
CatalogNext ==
  \E p \in Procs :
    \/ ReversalCreateOrder(p)
    \/ OrderCommit(p)
    \/ OrderEmit(p)
    \/ StartCancel(p)
    \/ CancelLine(p)
    \/ CancelCommit(p)
    \/ StartAdjust(p)
    \/ AdjustRecord(p)
    \/ StartReceive(p)
    \/ ReceiveLine(p)
    \/ ReceiveCommit(p)
    \/ UpdateVariant(p)

SpecCatalog == Init /\ [][CatalogNext]_vars

\* C29: the stock of a unit changes only by the signed amount of a stock
\* update: by the delta of an adjustment in the step of its update, by the
\* sum of the deltas of the movements a transaction records in the step of
\* its commit, and not at all in any other step; an update of a unit's
\* other fields leaves its stock as it is.
StockOnlyByInc ==
  [][ \A v \in Variants :
        variants'[v].stock - variants[v].stock =
          IF last'.op = "adjust"
          THEN (IF nreq' # nreq /\ last'.unit = v /\ last'.result = "pending"
                THEN last'.delta ELSE 0)
          ELSE SumDeltas(Appended, v)
    ]_vars

\* an update raised the threshold of v1, with another stock in its body,
\* after the stock of v1 had been changed
StockOnlyByIncWitness ==
  /\ last.op = "updateVariant"
  /\ last.result = "updated"
  /\ variants["v1"].lowStockThreshold = SeedThreshold + 1
  /\ variants["v1"].stock \notin {InitialStock["v1"], SeedStock + 1}
  /\ movements # <<>>

\* C30: every unit that a line of an order, a line of a purchase order or a
\* movement refers to exists.
ReferencedUnitsExist ==
  /\ \A id \in 1..Len(orders) : \A k \in 1..Len(orders[id].items) :
       variants[orders[id].items[k].variantId].exists
  /\ \A id \in 1..Len(purchaseOrders) : \A k \in 1..Len(purchaseOrders[id].items) :
       variants[purchaseOrders[id].items[k].variantId].exists
  /\ \A k \in 1..Len(movements) : variants[movements[k].variantId].exists

(* ----------------------- orders and prices ----------------------------- *)
\* orders of one and two lines, their status updates and cancellations, and
\* updates of the price of a unit
PriceNext ==
  \E p \in Procs :
    \/ StartCreateOrder(p)
    \/ OrderLine(p)
    \/ OrderCommit(p)
    \/ OrderEmit(p)
    \/ StartUpdateStatus(p)
    \/ StatusSave(p)
    \/ StartCancel(p)
    \/ CancelLine(p)
    \/ CancelCommit(p)
    \/ UpdateVariant(p)

SpecPrice == Init /\ [][PriceNext]_vars

\* the sum of the totals of the lines `items`
RECURSIVE SumTotals(_)
SumTotals(items) ==
  IF items = <<>> THEN 0 ELSE Head(items).total + SumTotals(Tail(items))

\* C31: after every step the total amount of every order is the sum of the
\* totals of its lines and the total of every line is its quantity times its
\* unit price; the unit price of a line of an order being committed is the
\* price its unit has at that instant; and no step changes the lines or the
\* total amount of an order that exists.
OrderTotals ==
  [][ /\ \A id \in 1..Len(orders') :
           LET order == orders'[id] IN
           /\ order.totalAmount = SumTotals(order.items)
           /\ \A k \in 1..Len(order.items) :
                order.items[k].total =
                  order.items[k].quantity * order.items[k].unitPrice
      /\ \A id \in (Len(orders) + 1)..Len(orders') :
           \A k \in 1..Len(orders'[id].items) :
             orders'[id].items[k].unitPrice =
               variants[orders'[id].items[k].variantId].price
      /\ \A id \in 1..Len(orders) :
           /\ orders'[id].items = orders[id].items
           /\ orders'[id].totalAmount = orders[id].totalAmount
    ]_vars

\* an order of two lines was created at the raised price, and the price was
\* changed again after it
OrderTotalsWitness ==
  \E id \in 1..Len(orders) :
    /\ Len(orders[id].items) = 2
    /\ orders[id].items[1].unitPrice = SeedPrice + 1
    /\ orders[id].totalAmount = 2 * (SeedPrice + 1)
    /\ variants["v1"].price = SeedPrice

\* C32: when Order.create fails on a duplicate order number the request is
\* answered with the duplicate-key conflict, the handler is done, it has
\* emitted nothing, and no unit, order or movement has changed: the
\* deductions of its lines and their movements are gone with the aborted
\* transaction.
DuplicateRollsBack ==
  [][ (proc[last'.p].pc = "order_commit" /\ last'.op = "createOrder"
         /\ orders' = orders) =>
        /\ last'.result = "DuplicateKey"
        /\ last'.events = <<>>
        /\ proc'[last'.p] = IdleProc
        /\ UNCHANGED <<variants, orders, purchaseOrders, movements>>
    ]_vars

\* a second order hit the order number of the first after its lines had
\* been deducted, and stock and movements are those of the first order alone
DuplicateRollsBackWitness ==
  /\ last.op = "createOrder"
  /\ last.result = "DuplicateKey"
  /\ Len(orders) = 1
  /\ Len(movements) = Len(orders[1].items)
  /\ variants["v1"].stock + SumQuantity(orders[1].items, "v1") = InitialStock["v1"]

(* ------------------- an order placed earlier --------------------------- *)
\* the order at the start: confirmed, one line of one piece of v1, as the
\* seed script creates orders with their sale movements
PlacedOrders ==
  << [tenantId |-> "t1", status |-> "confirmed",
      items |-> <<[variantId |-> "v1", quantity |-> 1, unitPrice |-> SeedPrice,
                   total |-> SeedPrice]>>,
      totalAmount |-> SeedPrice, cancelledAt |-> FALSE] >>

PlacedMovements ==
  << [variantId |-> "v1", type |-> "sale", quantity |-> 0 - 1,
      previousStock |-> SeedStock + 1, newStock |-> SeedStock,
      reference |-> "Order", referenceId |-> 1] >>

PlacedInit ==
  /\ variants = SeedVariants
  /\ orders = PlacedOrders
  /\ purchaseOrders = SeedPurchaseOrders
  /\ movements = PlacedMovements
  /\ proc = [p \in Procs |-> IdleProc]
  /\ nreq = 0
  /\ last = Did("p1", "none", 0, 0, "none")
  /\ sockets = NoSockets

\* status and cancel requests on the order
PlacedNext ==
  \E p \in Procs :
    \/ StatusAny(p)
    \/ StatusSave(p)
    \/ StartCancel(p)
    \/ CancelLine(p)
    \/ CancelCommit(p)

SpecPlaced == PlacedInit /\ [][PlacedNext]_vars

\* C33: a cancel succeeds only on an order that no cancel has succeeded on
\* before; its step adds to every unit at most the
\* quantities of the order's lines on it and records at most one return per
\* line; a cancel step that does not succeed changes no unit and no
\* movement.
RestoredAtMostOnce ==
  [][ last'.op = "cancel" =>
        IF last'.result = "cancelled"
        THEN LET items == orders[last'.ref].items IN
             /\ ~orders[last'.ref].cancelledAt
             /\ \A k \in 1..Len(movements) :
                  ~(/\ movements[k].reference = "Cancelled Order"
                    /\ movements[k].referenceId = last'.ref)
             /\ Len(Appended) <= Len(items)
             /\ \A v \in Variants :
                  variants'[v].stock - variants[v].stock <= SumQuantity(items, v)
        ELSE UNCHANGED <<variants, movements>>
    ]_vars

(* ------------------- an order shipped earlier -------------------------- *)
\* the placed order after PUT /api/orders/1/status has set it to shipped
ShippedInit ==
  /\ variants = SeedVariants
  /\ orders = [PlacedOrders EXCEPT ![1].status = "shipped"]
  /\ purchaseOrders = SeedPurchaseOrders
  /\ movements = PlacedMovements
  /\ proc = [p \in Procs |-> IdleProc]
  /\ nreq = 0
  /\ last = Did("p1", "none", 0, 0, "none")
  /\ sockets = NoSockets

SpecShipped == ShippedInit /\ [][PlacedNext]_vars

\* C34: under status and cancel requests, an order that was shipped is never
\* cancelled, has no cancellation timestamp, and the stock of its unit and
\* the movements stay as they were: nothing is restored.
ShippedNeverCancelled ==
  /\ orders[1].status # "cancelled"
  /\ ~orders[1].cancelledAt
  /\ movements = PlacedMovements
  /\ variants["v1"].stock = InitialStock["v1"]

(* --------------- a purchase order with a unit on two lines ------------- *)
\* the purchase orders at the start: the seeded one, and one that POST
\* /api/purchase-orders accepted with two lines for v1, confirmed since
TwoLineSeed ==
  SeedPurchaseOrders \o
  << [tenantId |-> "t1", status |-> "confirmed",
      items |-> <<PoLine("v1", 1), PoLine("v1", 1)>>] >>

TwoLineInit ==
  /\ variants = SeedVariants
  /\ orders = <<>>
  /\ purchaseOrders = TwoLineSeed
  /\ movements = <<>>
  /\ proc = [p \in Procs |-> IdleProc]
  /\ nreq = 0
  /\ last = Did("p1", "none", 0, 0, "none")
  /\ sockets = NoSockets

\* the request body that names, for every line of po not yet fully received,
\* the unit of the line and what remains to be received on it
RECURSIVE RemainderBody(_)
RemainderBody(items) ==
  IF items = <<>> THEN <<>>
  ELSE (IF Remaining(Head(items)) > 0
        THEN <<Line(Head(items).variantId, Remaining(Head(items)), FALSE)>>
        ELSE <<>>) \o RemainderBody(Tail(items))

\* a receive request for all that remains on a purchase order
ReceiveRemainder(p) ==
  /\ proc[p].pc = "idle"
  /\ nreq < MaxRequests
  /\ \E id \in 1..Len(purchaseOrders) :
       /\ RemainderBody(purchaseOrders[id].items) # <<>>
       /\ ReceiveFind(p, id, RemainderBody(purchaseOrders[id].items))

\* a receive request for one piece of one unit
ReceiveOne(p) ==
  /\ proc[p].pc = "idle"
  /\ nreq < MaxRequests
  /\ \E id \in 1..Len(purchaseOrders), v \in {"v1", "v2"} :
       ReceiveFind(p, id, <<Line(v, 1, FALSE)>>)

TwoLineNext ==
  \E p \in Procs :
    \/ ReceiveRemainder(p)
    \/ ReceiveOne(p)
    \/ ReceiveLine(p)
    \/ ReceiveCommit(p)

SpecTwoLine == TwoLineInit /\ [][TwoLineNext]_vars

\* C35: a receive request for exactly what remains on every line of its
\* purchase order is refused on no line as over its remainder or as no line
\* of the order, and its commit leaves the purchase order received with,
\* on every line, the quantity received equal to the quantity ordered.
ReceiveRemainderCompletes ==
  [][ (/\ last'.op = "receive"
       /\ proc[last'.p].pc \in {"receive_loop", "receive_commit"}
       /\ proc[last'.p].items = RemainderBody(purchaseOrders[last'.ref].items))
        => /\ last'.result \notin {"OverReceipt", "NotInPO"}
           /\ last'.result = "received" =>
                LET po == purchaseOrders'[last'.ref] IN
                /\ po.status = "received"
                /\ \A k \in 1..Len(po.items) :
                     po.items[k].quantityReceived = po.items[k].quantityOrdered
    ]_vars

\* C36: a step of an order creation, a cancellation or a receive that
\* answers with an error changes no unit, order, purchase order or movement,
\* and the request it ends has not committed its transaction before.
ErrorMeansNothingPersisted ==
  [][ (last'.op \in {"createOrder", "cancel", "receive"} /\ Failed(last'.op)) =>
        /\ UNCHANGED <<variants, orders, purchaseOrders, movements>>
        /\ proc[last'.p].pc # "order_emit"
    ]_vars

(* ------------------- orders racing with stock additions ---------------- *)
\* orders that ask for more than the seeded stock of v1, in the first turn,
\* after a turn on another unit, and after a turn on v1 itself
AvailOrderBodies ==
  { <<Line("v1", SeedStock + 1, FALSE)>>,
    <<Line("v2", 1, FALSE), Line("v1", SeedStock + 1, FALSE)>>,
    <<Line("v1", 1, FALSE), Line("v1", SeedStock, FALSE)>> }

AvailCreateOrder(p) ==
  /\ proc[p].pc = "idle"
  /\ nreq < MaxRequests
  /\ nreq' = nreq + 1
  /\ \E body \in AvailOrderBodies :
       OrderTurn(p, [IdleProc EXCEPT !.pc = "order_loop", !.items = body])

\* adjustments that add to or take from v1
AvailAdjust(p) ==
  /\ proc[p].pc = "idle"
  /\ nreq < MaxRequests
  /\ \E q \in {1, 0 - 1} : AdjustUpdate(p, Adjustment("v1", q, "adjustment", FALSE))

AvailNext ==
  \E p \in Procs :
    \/ AvailCreateOrder(p)
    \/ OrderLine(p)
    \/ OrderCommit(p)
    \/ OrderEmit(p)
    \/ AvailAdjust(p)
    \/ AdjustRecord(p)

SpecAvail == Init /\ [][AvailNext]_vars

\* C37: a step of order creation that answers InsufficientStock carries as
\* the available quantity the stock of the unit that the conditional update
\* of that turn was evaluated against (the session's view), and that
\* quantity is less than the requested one, also when an adjustment has
\* added stock to the unit after the session took its snapshot.
AvailableIsRejectedStock ==
  [][ (last'.op = "createOrder" /\ last'.result = "InsufficientStock") =>
        /\ last'.available = TxnView(last'.p)[last'.unit].stock
        /\ ~OrderGuard(TxnView(last'.p),
                       Line(last'.unit, 0 - last'.delta, FALSE), ReqTenant)
        /\ last'.available < 0 - last'.delta
    ]_vars

\* an order was refused for v1 with the seeded stock as the available
\* quantity in its second turn, while the committed stock of v1, raised by
\* an adjustment after the first turn, covers the requested quantity
AvailableIsRejectedStockWitness ==
  /\ last.op = "createOrder"
  /\ last.result = "InsufficientStock"
  /\ last.unit = "v1"
  /\ last.line = 2
  /\ last.available = SeedStock
  /\ 0 - last.delta = SeedStock + 1
  /\ variants["v1"].stock >= SeedStock + 1

\* C38: in every reachable state an order has a cancellation timestamp
\* exactly when its status is cancelled.
CancelledAtIffCancelled ==
  \A id \in 1..Len(orders) :
    orders[id].cancelledAt <=> orders[id].status = "cancelled"

(* ----------------------- socket connections ---------------------------- *)
\* socket.handshake.auth.token: the tenantId of a token signed with the
\* server's secret, a token that jwt.verify rejects, or no token
Handshakes == {"t1", "t2", "invalid", "none"}

\* what a client sends as the argument of watch:variant and unwatch:variant:
\* ids of units, and the name of a tenant's room
WatchInputs == {"v1", "tenant:t1"}

\* a join of the room the client names
WatchRoomRaw(variantId) == variantId

\* the room `variant:${variantId}`
WatchRoom(variantId) == "variant:" \o variantId

\* the authentication middleware and the connection handler: a socket whose
\* token verifies joins the room of the token's tenant; without a token, or
\* with one that does not verify, next(error) refuses the connection
Connect(c) ==
  /\ ~sockets[c].connected
  /\ \E token \in Handshakes :
       LET ok == token \notin {"invalid", "none"} IN
       /\ sockets' = [sockets EXCEPT ![c] =
            IF ok THEN [connected |-> TRUE, tenantId |-> token,
                        rooms |-> {TenantRoom(token)}, received |-> {}]
            ELSE NoSocket]
       /\ last' = Did(c, "connect", 0, 0, IF ok THEN "connected" ELSE "refused")
  /\ UNCHANGED <<variants, orders, purchaseOrders, movements, proc, nreq>>

\* the socket closes: it leaves its rooms; the handler logs
Disconnect(c) ==
  /\ sockets[c].connected
  /\ sockets' = [sockets EXCEPT ![c] = NoSocket]
  /\ last' = Did(c, "disconnect", 0, 0, "closed")
  /\ UNCHANGED <<variants, orders, purchaseOrders, movements, proc, nreq>>

\* socket.on('watch:variant'): socket.join(`variant:${variantId}`)
Watch(c) ==
  /\ sockets[c].connected
  /\ \E variantId \in WatchInputs :
       sockets' = [sockets EXCEPT ![c].rooms = @ \cup {WatchRoom(variantId)}]
  /\ last' = Did(c, "watch:variant", 0, 0, "joined")
  /\ UNCHANGED <<variants, orders, purchaseOrders, movements, proc, nreq>>

\* socket.on('unwatch:variant'): socket.leave(`variant:${variantId}`)
Unwatch(c) ==
  /\ sockets[c].connected
  /\ \E variantId \in WatchInputs :
       sockets' = [sockets EXCEPT ![c].rooms = @ \ {WatchRoom(variantId)}]
  /\ last' = Did(c, "unwatch:variant", 0, 0, "left")
  /\ UNCHANGED <<variants, orders, purchaseOrders, movements, proc, nreq>>

\* clients connecting, watching and leaving while status requests of tenant
\* t1 on the placed order emit order:updated
SocketNext ==
  \/ \E c \in Conns :
       \/ Connect(c)
       \/ Disconnect(c)
       \/ Watch(c)
       \/ Unwatch(c)
  \/ \E p \in Procs :
       \/ StatusAny(p)
       \/ StatusSave(p)

SpecSocket == PlacedInit /\ [][SocketNext]_vars

\* C39: a socket is in the room of a tenant only if it is connected with a
\* token of that tenant, and every event delivered to a socket was emitted
\* for a request of the socket's tenant, whatever the clients send as
\* watch:variant and unwatch:variant.
SocketIsolation ==
  \A c \in Conns :
    /\ \A t \in {"t1", "t2"} :
         TenantRoom(t) \in sockets[c].rooms =>
           sockets[c].connected /\ sockets[c].tenantId = t
    /\ \A e \in sockets[c].received : e.tenantId = sockets[c].tenantId

\* a status request of tenant t1 has just emitted order:updated, which a
\* socket of t1 received, while a socket of tenant t2 that had sent
\* watch:variant with a unit of t1 and with the name of t1's room received
\* nothing
SocketIsolationWitness ==
  /\ last.op = "updateStatus"
  /\ last.events # <<>>
  /\ \E c, d \in Conns :
       /\ sockets[c].tenantId = "t1"
       /\ sockets[c].received # {}
       /\ sockets[d].tenantId = "t2"
       /\ {WatchRoom("v1"), WatchRoom("tenant:t1")} \subseteq sockets[d].rooms
       /\ sockets[d].received = {}
====
